---- MODULE Spec2Model ----
(***************************************************************************)
(* State-machine model of the AI readiness / use-case scoring /            *)
(* prioritization tool (AIReadinessAndScoring, AISpiderCharts,             *)
(* ImpactFeasibility).                                                     *)
(*                                                                         *)
(* JavaScript numbers are modelled as exact rationals with the fixed       *)
(* denominator Den: the number n is the integer k = n * Den.  NaN is a     *)
(* separate value.  JSON values are tagged records, so that the import     *)
(* code's typeof / Number() / Array.isArray tests are decided by the       *)
(* model as they are by the code.                                          *)
(***************************************************************************)
EXTENDS Integers, Sequences, FiniteSets, TLC

VARIABLES
    step,        \* "readiness" | "scoring" | "prioritization"
    demoPending, \* the mode=demo mount effect has not run yet
    scores,      \* ReadinessScores: key -> value
    useCases,    \* sequence of UseCase records
    placements,  \* key (stringified id, or "__activeId") -> value
    selected,    \* AISpiderCharts: selected tab index
    dragging,    \* useDragPlace: dragging.current
    boardStale,  \* ImpactFeasibility has a state update it has not rendered yet
    edits,       \* number of data-entry events so far (bounds the run)
    notice,      \* last alert() raised, "" when none
    call         \* a function application under check: [fn, arg, ret]

vars == <<step, demoPending, scores, useCases, placements, selected,
          dragging, boardStale, edits, notice, call>>

---------------------------------------------------------------------------
(* Bounds of the model *)

\* grid refinement: numbers are multiples of 1 / (60 * Res)
Res == 1
\* data-entry events (score / meta / readiness edits, pointer moves) per run
MaxEdits == 1

Den == 60 * Res
Half == Den \div 2

---------------------------------------------------------------------------
(* JavaScript values *)

Undef == [t |-> "undefined"]
Null == [t |-> "null"]
NaN == [t |-> "number", nan |-> TRUE, k |-> 0]
\* the number k / Den
Num(k) == [t |-> "number", nan |-> FALSE, k |-> k]
\* the integer i as a JavaScript number
Int2Num(i) == Num(i * Den)
Str(s) == [t |-> "string", s |-> s]
Bool(b) == [t |-> "boolean", b |-> b]
\* a plain object: f is a function from its own keys to values
Obj(f) == [t |-> "object", f |-> f]
Arr(a) == [t |-> "array", a |-> a]

Max(a, b) == IF a >= b THEN a ELSE b
Min(a, b) == IF a <= b THEN a ELSE b

\* String(i) for the small non-negative integers the model uses as ids
IdKey(i) == ToString(i)

\* Number(s) for a string s: the strings the model's documents contain
StrToNumber(s) ==
    CASE s = "" -> Num(0)
      [] s = " " -> Num(0)
      [] s = "0" -> Int2Num(0)
      [] s = "1" -> Int2Num(1)
      [] s = "2" -> Int2Num(2)
      [] s = "3" -> Int2Num(3)
      [] s = "4" -> Int2Num(4)
      [] s = "5" -> Int2Num(5)
      [] s = "6" -> Int2Num(6)
      [] s = "7" -> Int2Num(7)
      [] s = "8" -> Int2Num(8)
      [] s = "9" -> Int2Num(9)
      [] s = "10" -> Int2Num(10)
      [] s = "11" -> Int2Num(11)
      [] s = "02" -> Int2Num(2)
      [] s = "-1" -> Int2Num(-1)
      [] s = "1.5" -> Num(Den + Half)
      [] OTHER -> NaN

\* Number(v)
ToNumber(v) ==
    CASE v.t = "number" -> v
      [] v.t = "undefined" -> NaN
      [] v.t = "null" -> Num(0)
      [] v.t = "boolean" -> IF v.b THEN Int2Num(1) ELSE Num(0)
      [] v.t = "string" -> StrToNumber(v.s)
      [] v.t = "array" -> IF v.a = <<>> THEN Num(0)
                          ELSE IF Len(v.a) = 1 /\ v.a[1].t = "number" THEN v.a[1]
                          ELSE IF Len(v.a) = 1 /\ v.a[1].t = "string" THEN StrToNumber(v.a[1].s)
                          ELSE IF Len(v.a) = 1 /\ v.a[1].t \in {"null", "undefined"} THEN Num(0)
                          ELSE NaN
      [] OTHER -> NaN

\* Number(v) throws a TypeError: v is an object with a member "toString" of
\* its own, which in a parsed JSON value is never callable (the inherited
\* valueOf returns the object itself), or an array whose join meets one
NumberThrows(v) ==
    CASE v.t = "object" -> "toString" \in DOMAIN v.f
      [] v.t = "array" ->
            \E i \in DOMAIN v.a :
                v.a[i].t = "object" /\ "toString" \in DOMAIN v.a[i].f
      [] OTHER -> FALSE

\* Math.round of a number: nearest integer, ties towards +infinity; NaN stays NaN
MathRound(n) == IF n.nan THEN NaN ELSE Int2Num((n.k + Half) \div Den)

\* Math.max(lo, Math.min(hi, n)) on numbers, lo and hi integers; NaN propagates
MaxMin(lo, hi, n) == IF n.nan THEN NaN ELSE Num(Max(lo * Den, Min(hi * Den, n.k)))

\* truthiness of a value
Truthy(v) ==
    CASE v.t \in {"undefined", "null"} -> FALSE
      [] v.t = "number" -> ~v.nan /\ v.k # 0
      [] v.t = "string" -> v.s # ""
      [] v.t = "boolean" -> v.b
      [] OTHER -> TRUE

\* typeof v === "object"
TypeofObject(v) == v.t \in {"object", "array", "null"}

\* Object.keys(v) of an object or array
Keys(v) ==
    CASE v.t = "object" -> DOMAIN v.f
      [] v.t = "array" -> {IdKey(i - 1) : i \in DOMAIN v.a}
      [] OTHER -> {}

\* v?.[key]: property read with optional chaining
Get(v, key) ==
    CASE v.t = "object" -> IF key \in DOMAIN v.f THEN v.f[key] ELSE Undef
      [] v.t = "array" ->
            IF \E i \in DOMAIN v.a : IdKey(i - 1) = key
            THEN v.a[CHOOSE i \in DOMAIN v.a : IdKey(i - 1) = key]
            ELSE Undef
      [] OTHER -> Undef

---------------------------------------------------------------------------
(* Criteria registry and defaults *)

\* READINESS: the readiness dimension keys, in declaration order
READINESS == <<"dataMaturity", "peopleSkills", "processesWorkflows",
               "governanceRisk", "resourcesBudget", "techInfra",
               "changeReadiness", "leadershipAlignment", "partnerships",
               "citizenOrientation", "ethicsTrust">>

ReadinessKeys == {READINESS[i] : i \in DOMAIN READINESS}

\* the keys of UseCase["scores"], in the order emptyScores() creates them
ScoreKeys == <<"dataReady", "techMature", "lowImplementationCost", "reusable",
               "increasesProductivity", "reducesCosts", "benefitsPublic",
               "noRisk">>

CriterionKeys == {ScoreKeys[i] : i \in DOMAIN ScoreKeys}

\* number of use cases at start and after a project import
DefaultUseCaseCount == 8
\* addUseCase refuses at this many use cases
MaxUseCases == 10
\* removeUseCase refuses at this many use cases
MinUseCases == 2

defaultReadiness ==
    [k \in ReadinessKeys |-> Int2Num(3)] @@ ("notes" :> Str(""))

emptyScores == [k \in CriterionKeys |-> Int2Num(5)]

\* `Use Case ${i + 1}`
UseCaseLabel(i) == "Use Case " \o ToString(i + 1)

\* a use case as created by defaultUseCases / addUseCase at position i
DefaultUseCase(i) ==
    [id |-> i, name |-> UseCaseLabel(i), description |-> "", visible |-> TRUE,
     scores |-> emptyScores]

defaultUseCases == [i \in 1..DefaultUseCaseCount |-> DefaultUseCase(i - 1)]

---------------------------------------------------------------------------
(* Score sanitizers *)

\* clamp15 without the Math.min(5, ...)
clamp15_NoUpper(n) ==
    IF n.nan THEN Int2Num(1)
    ELSE IF MathRound(n).k < Den THEN Int2Num(1) ELSE MathRound(n)

\* clamp15 (readiness edit path)
clamp15(n) == IF n.nan THEN Int2Num(1) ELSE MaxMin(1, 5, MathRound(n))

\* clamp01to10 (use-case edit path)
clamp01to10(n) == IF n.nan THEN Int2Num(0) ELSE MaxMin(1, 10, MathRound(n))

\* clamp1to5 (project import path)
clamp1to5(v) ==
    LET num == MathRound(ToNumber(v))
    IN  IF num.nan THEN Int2Num(1) ELSE MaxMin(1, 5, num)

\* clamp1to10 (project import path)
clamp1to10(v) ==
    LET num == MathRound(ToNumber(v))
    IN  IF num.nan THEN Int2Num(1) ELSE MaxMin(1, 10, num)

\* clamp01 without the Math.max(0, ...)
clamp01_NoLower(n) == IF n.nan THEN NaN ELSE Num(Min(Den, n.k))

\* clamp01 (placement coordinates)
clamp01(n) == MaxMin(0, 1, n)

---------------------------------------------------------------------------
(* Demo data (mode=demo) *)

demoReadinessScores ==
    ( "dataMaturity" :> Int2Num(3) @@ "peopleSkills" :> Int2Num(4)
   @@ "processesWorkflows" :> Int2Num(3) @@ "governanceRisk" :> Int2Num(2)
   @@ "resourcesBudget" :> Int2Num(1) @@ "techInfra" :> Int2Num(3)
   @@ "changeReadiness" :> Int2Num(4) @@ "leadershipAlignment" :> Int2Num(4)
   @@ "partnerships" :> Int2Num(3) @@ "citizenOrientation" :> Int2Num(4)
   @@ "ethicsTrust" :> Int2Num(3) @@ "notes" :> Str("") )

\* the score object of a demo use case: the 8 criteria in ScoreKeys order,
\* then increaseRevenue and strategicImpact
DemoScoreObj(v) ==
    [k \in CriterionKeys |-> Int2Num(v[CHOOSE i \in DOMAIN ScoreKeys : ScoreKeys[i] = k])]
    @@ ("increaseRevenue" :> Int2Num(v[9]) @@ "strategicImpact" :> Int2Num(v[10]))

\* (the demo descriptions are free text; the model abbreviates them)
DemoUseCase(i, name, v) ==
    [id |-> i, name |-> name, description |-> "demo", visible |-> TRUE,
     scores |-> DemoScoreObj(v)]

demoUseCases ==
    << DemoUseCase(0, "Smart Visitor Forecasting", <<8, 8, 7, 6, 9, 7, 9, 7, 2, 7>>),
       DemoUseCase(1, "Personalized Itineraries",  <<7, 8, 6, 8, 7, 6, 9, 6, 9, 7>>),
       DemoUseCase(2, "Heritage Preservation AI",  <<5, 6, 4, 5, 7, 6, 8, 5, 2, 8>>),
       DemoUseCase(3, "Tourist Query Assistant",   <<8, 9, 8, 7, 8, 7, 9, 7, 2, 7>>),
       DemoUseCase(4, "Sentiment Analysis",        <<7, 8, 7, 6, 7, 6, 8, 7, 6, 3>>),
       DemoUseCase(5, "Fraud Detection",           <<7, 8, 7, 8, 8, 9, 6, 7, 1, 7>>),
       DemoUseCase(6, "AR/VR Experiences",         <<4, 6, 4, 6, 7, 5, 9, 4, 8, 3>>),
       DemoUseCase(7, "Dynamic Pricing",           <<6, 7, 5, 7, 7, 8, 6, 6, 9, 2>>) >>

\* a coordinate pair given in hundredths
Pt(x100, y100) ==
    [x |-> Num((x100 * Den) \div 100), y |-> Num((y100 * Den) \div 100)]

demoPlacements ==
    ( "0" :> Pt(80, 70) @@ "3" :> Pt(85, 70) @@ "1" :> Pt(50, 80)
   @@ "2" :> Pt(25, 90) @@ "6" :> Pt(20, 90) @@ "4" :> Pt(80, 40)
   @@ "5" :> Pt(85, 40) @@ "7" :> Pt(40, 40) )

\* the empty object {}
EmptyMap == [k \in {} |-> Undef]

---------------------------------------------------------------------------
(* Initial state: AIReadinessAndScoring's useState initialisers *)

\* no function application recorded
NoCall == [fn |-> "", arg |-> Undef, ret |-> Undef]

InitSession ==
    /\ step = "readiness"
    /\ demoPending \in BOOLEAN
    /\ scores = defaultReadiness
    /\ useCases = defaultUseCases
    /\ placements = EmptyMap
    /\ selected = 0
    /\ dragging = FALSE
    /\ edits = 0
    /\ boardStale = FALSE
    /\ notice = ""

Init == InitSession /\ call = NoCall

\* the mode=demo mount effect; it runs before any user event is handled
DemoEffect ==
    /\ demoPending
    /\ demoPending' = FALSE
    /\ scores' = demoReadinessScores
    /\ useCases' = demoUseCases
    /\ placements' = demoPlacements
    /\ UNCHANGED <<step, selected, dragging, boardStale, edits, notice, call>>

---------------------------------------------------------------------------
(* Navigation between the three steps.  Leaving a step unmounts its        *)
(* component, so the component-local state (selected, dragging.current)    *)
(* starts afresh at the next mount.                                        *)

Goto(s) ==
    /\ step' = s
    /\ selected' = 0
    /\ dragging' = FALSE
    /\ boardStale' = (s = "prioritization")
    /\ UNCHANGED <<demoPending, scores, useCases, placements, edits, notice, call>>

Continue ==
    /\ ~demoPending
    /\ step # "prioritization"
    /\ Goto(IF step = "readiness" THEN "scoring" ELSE "prioritization")

Back ==
    /\ ~demoPending
    /\ step # "readiness"
    /\ Goto(IF step = "prioritization" THEN "scoring" ELSE "readiness")

---------------------------------------------------------------------------
(* Step 2: AISpiderCharts handlers *)

\* the inputs the model feeds to updateScore: NaN, 0 (an emptied field), 11
ScoreInputs == {NaN, Num(0), Int2Num(11)}

\* the <<field, value>> inputs the model feeds to updateMeta
MetaInputs == {<<"name", "">>, <<"description", "X">>}

\* the array positions (1-based) whose form is on screen: only the selected
\* tab's TabsContent is rendered, and its inputs pass their own index
EditPositions(ucs, sel) == {i \in DOMAIN ucs : i = sel + 1}

\* the criterion the model edits
EditKeys == {ScoreKeys[1]}

\* addUseCase's early return with > in place of >=
AddRefused_OffByOne(ucs) == Len(ucs) > MaxUseCases

\* addUseCase's early return
AddRefused(ucs) == Len(ucs) >= MaxUseCases

\* addUseCase's updater giving the new entry the id prev.length + 1
AddUpdater_IdOffByOne(prev) == Append(prev, DefaultUseCase(Len(prev) + 1))

\* the setUseCases updater of addUseCase
AddUpdater(prev) == Append(prev, DefaultUseCase(Len(prev)))

addUseCase ==
    /\ ~demoPending /\ step = "scoring"
    /\ ~AddRefused(useCases)
    /\ useCases' = AddUpdater(useCases)
    /\ selected' = Len(useCases)
    /\ UNCHANGED <<step, demoPending, scores, placements, dragging, boardStale, edits, notice, call>>

\* removeUseCase's early return
RemoveRefused(ucs) == Len(ucs) <= MinUseCases

\* removeUseCase's updater dropping the last two entries
RemoveUpdater_DropTwo(prev) ==
    LET next == SubSeq(prev, 1, Len(prev) - 2)
    IN  [i \in DOMAIN next |-> [next[i] EXCEPT !.id = i - 1]]

\* the setUseCases updater of removeUseCase: drop the last, reindex the ids
RemoveUpdater(prev) ==
    LET next == SubSeq(prev, 1, Len(prev) - 1)
    IN  [i \in DOMAIN next |-> [next[i] EXCEPT !.id = i - 1]]

removeUseCase ==
    /\ ~demoPending /\ step = "scoring"
    /\ ~RemoveRefused(useCases)
    /\ useCases' = RemoveUpdater(useCases)
    /\ selected' = Min(selected, Len(useCases) - 2)
    /\ UNCHANGED <<step, demoPending, scores, placements, dragging, boardStale, edits, notice, call>>

\* the setUseCases updater of updateScore (i is the 1-based position)
ScoreUpdater(prev, i, key, value) ==
    [prev EXCEPT ![i] = [@ EXCEPT !.scores = (key :> clamp01to10(value)) @@ @]]

updateScore ==
    /\ ~demoPending /\ step = "scoring"
    /\ edits < MaxEdits
    /\ \E i \in EditPositions(useCases, selected), key \in EditKeys, value \in ScoreInputs :
          useCases' = ScoreUpdater(useCases, i, key, value)
    /\ edits' = edits + 1
    /\ UNCHANGED <<step, demoPending, scores, placements, selected, dragging, boardStale, notice, call>>

\* the setUseCases updater of updateMeta
MetaUpdater(prev, i, field, value) ==
    IF field = "name"
    THEN [prev EXCEPT ![i] = [@ EXCEPT !.name = value]]
    ELSE [prev EXCEPT ![i] = [@ EXCEPT !.description = value]]

updateMeta ==
    /\ ~demoPending /\ step = "scoring"
    /\ edits < MaxEdits
    /\ \E i \in EditPositions(useCases, selected), in \in MetaInputs :
          useCases' = MetaUpdater(useCases, i, in[1], in[2])
    /\ edits' = edits + 1
    /\ UNCHANGED <<step, demoPending, scores, placements, selected, dragging, boardStale, notice, call>>

\* the setUseCases updater of toggleVisible
VisibleUpdater(prev, i) ==
    [prev EXCEPT ![i] = [@ EXCEPT !.visible = ~@]]

toggleVisible ==
    /\ ~demoPending /\ step = "scoring"
    /\ edits < MaxEdits
    /\ \E i \in EditPositions(useCases, selected) : useCases' = VisibleUpdater(useCases, i)
    /\ edits' = edits + 1
    /\ UNCHANGED <<step, demoPending, scores, placements, selected, dragging, boardStale, notice, call>>

\* Tabs onValueChange: select an existing tab
selectTab ==
    /\ ~demoPending /\ step = "scoring"
    /\ \E i \in 0..(Len(useCases) - 1) : selected' = i
    /\ UNCHANGED <<step, demoPending, scores, useCases, placements, dragging, boardStale, edits, notice, call>>

---------------------------------------------------------------------------
(* Project import (AIReadinessAndScoring.importProject) *)

\* the use-case count importProject pads or truncates to
ImportUseCaseCount == 8

\* --- Scores ---
ImportScores(payload) ==
    LET ps == Get(payload, "scores")
    IN  IF Truthy(ps) /\ TypeofObject(ps)
        THEN LET next == [k \in ReadinessKeys |-> clamp1to5(Get(ps, k))]
                          @@ defaultReadiness
                 notes == Get(ps, "notes")
             IN  IF notes.t = "string" THEN ("notes" :> notes) @@ next ELSE next
        ELSE defaultReadiness

\* the j-th (0-based) entry of the padding array
PadEntry(j) ==
    Obj( "id" :> Int2Num(j) @@ "name" :> Str(UseCaseLabel(j))
      @@ "description" :> Str("") @@ "visible" :> Bool(TRUE)
      @@ "scores" :> Obj([k \in CriterionKeys |-> Int2Num(5)]) )

\* incomingUC after the fill, without the slice
PadOrTruncate_NoSlice(incoming) ==
    IF Len(incoming) < ImportUseCaseCount
    THEN incoming \o [j \in 1..(ImportUseCaseCount - Len(incoming)) |-> PadEntry(j - 1)]
    ELSE incoming

\* incomingUC after the fill / slice
PadOrTruncate(incoming) ==
    IF Len(incoming) < ImportUseCaseCount
    THEN incoming \o [j \in 1..(ImportUseCaseCount - Len(incoming)) |-> PadEntry(j - 1)]
    ELSE IF Len(incoming) > ImportUseCaseCount
         THEN SubSeq(incoming, 1, ImportUseCaseCount)
         ELSE incoming

\* the repair keeping a numeric input id
RepairUseCase_KeepId(u, i) ==
    LET name == Get(u, "name")
        description == Get(u, "description")
        visible == Get(u, "visible")
        sc == Get(u, "scores")
    IN  [id |-> IF Get(u, "id").t = "number" THEN Get(u, "id").k \div Den ELSE i,
         name |-> IF name.t = "string" THEN name.s ELSE UseCaseLabel(i),
         description |-> IF description.t = "string" THEN description.s ELSE "",
         visible |-> IF visible.t = "boolean" THEN visible.b ELSE TRUE,
         scores |-> [k \in CriterionKeys |-> clamp1to10(Get(sc, k))]]

\* one element of nextUseCases: u repaired, at 0-based position i
RepairUseCase(u, i) ==
    LET name == Get(u, "name")
        description == Get(u, "description")
        visible == Get(u, "visible")
        sc == Get(u, "scores")
    IN  [id |-> i,
         name |-> IF name.t = "string" THEN name.s ELSE UseCaseLabel(i),
         description |-> IF description.t = "string" THEN description.s ELSE "",
         visible |-> IF visible.t = "boolean" THEN visible.b ELSE TRUE,
         scores |-> [k \in CriterionKeys |-> clamp1to10(Get(sc, k))]]

\* --- Use cases ---
ImportUseCases(payload) ==
    LET uc == Get(payload, "useCases")
        incomingUC == PadOrTruncate(IF uc.t = "array" THEN uc.a ELSE <<>>)
    IN  [i \in DOMAIN incomingUC |-> RepairUseCase(incomingUC[i], i - 1)]

\* Number.isInteger
IsInteger(n) == ~n.nan /\ n.k % Den = 0

\* String(id) of an integer-valued number
NumKey(n) == ToString(n.k \div Den)

\* the placement key k of pp passes both checks of importProject
PlacementAccepted(pp, k) ==
    LET id == StrToNumber(k)
        p == Get(pp, k)
    IN  /\ IsInteger(id)
        /\ Truthy(p) /\ TypeofObject(p)
        /\ ~clamp01(ToNumber(Get(p, "x"))).nan
        /\ ~clamp01(ToNumber(Get(p, "y"))).nan

\* the coordinate pair of an accepted key, stored without the clamp
PlacementStored_Unclamped(pp, k) ==
    LET p == Get(pp, k)
    IN  [x |-> ToNumber(Get(p, "x")), y |-> ToNumber(Get(p, "y"))]

\* the coordinate pair stored for an accepted key
PlacementStored(pp, k) ==
    LET p == Get(pp, k)
    IN  [x |-> clamp01(ToNumber(Get(p, "x"))), y |-> clamp01(ToNumber(Get(p, "y")))]

\* Object.keys lists integer-like keys first: of the accepted keys that name
\* the same id, a key that is not the id's canonical string is visited last
\* and its value is the one that stays
LastKeyFor(pp, key) ==
    LET ks == {k \in Keys(pp) : PlacementAccepted(pp, k) /\ NumKey(StrToNumber(k)) = key}
    IN  IF \E k \in ks : k # key THEN CHOOSE k \in ks : k # key ELSE key

\* --- Placements ---
ImportPlacements(payload) ==
    LET pp == Get(payload, "placements")
    IN  IF Truthy(pp) /\ TypeofObject(pp)
        THEN LET ids == {NumKey(StrToNumber(k)) :
                           k \in {kk \in Keys(pp) : PlacementAccepted(pp, kk)}}
             IN  [key \in ids |-> PlacementStored(pp, LastKeyFor(pp, key))]
        ELSE EmptyMap

\* some Number(...) that importProject applies to payload throws, so control
\* passes to its catch block before any setter has run
ImportThrows(payload) ==
    LET ps == Get(payload, "scores")
        uc == Get(payload, "useCases")
        incomingUC == PadOrTruncate(IF uc.t = "array" THEN uc.a ELSE <<>>)
        pp == Get(payload, "placements")
    IN  \/ /\ Truthy(ps) /\ TypeofObject(ps)
           /\ \E k \in ReadinessKeys : NumberThrows(Get(ps, k))
        \/ \E i \in DOMAIN incomingUC : \E k \in CriterionKeys :
               NumberThrows(Get(Get(incomingUC[i], "scores"), k))
        \/ /\ Truthy(pp) /\ TypeofObject(pp)
           /\ \E k \in Keys(pp) :
                 /\ IsInteger(StrToNumber(k))
                 /\ Truthy(Get(pp, k)) /\ TypeofObject(Get(pp, k))
                 /\ \/ NumberThrows(Get(Get(pp, k), "x"))
                    \/ NumberThrows(Get(Get(pp, k), "y"))

---------------------------------------------------------------------------
(* The project documents the model imports *)

\* a {x, y} object
XY(x, y) == Obj("x" :> x @@ "y" :> y)

\* a use-case object with every field well-formed and every criterion = v
UseCaseDoc(i, name, visible, v) ==
    Obj( "id" :> Int2Num(i) @@ "name" :> Str(name) @@ "description" :> Str("d")
      @@ "visible" :> Bool(visible)
      @@ "scores" :> Obj([k \in CriterionKeys |-> Int2Num(v)]) )

\* {} : every field missing
DocEmpty == Obj(EmptyMap)

\* {useCases: [{name: "X"}]}
DocOneUseCase == Obj("useCases" :> Arr(<<Obj("name" :> Str("X"))>>))

\* {placements: {"2": {x: 1.5, y: -0.3}}}
DocOutOfRangePlacement ==
    Obj("placements" :> Obj("2" :> XY(Num(Den + Half), Num(-((3 * Den) \div 10)))))

\* a well-formed export of a session with 10 use cases, taken mid-drag
DocTenUseCases ==
    Obj( "version" :> Int2Num(1)
      @@ "exportedAt" :> Str("t")
      @@ "scores" :> Obj([k \in ReadinessKeys |-> Int2Num(4)] @@ ("notes" :> Str("n")))
      @@ "useCases" :> Arr([i \in 1..10 |->
                            UseCaseDoc(i - 1, IF i = 3 THEN "" ELSE "U", i # 2, i)])
      @@ "placements" :> Obj( "0" :> XY(Num(Den), Num(Den))
                           @@ "1" :> XY(Num((2 * Den) \div 3), Num(Half))
                           @@ "2" :> XY(Num(Den \div 3), Num(Half))
                           @@ "3" :> XY(Num((Den \div 3) - 1), Num(Den))
                           @@ "9" :> XY(Num(0), Num(0))
                           @@ "__activeId" :> Int2Num(9) ) )

\* wrong-typed and out-of-range fields everywhere
DocMalformed ==
    Obj( "scores" :> Obj( "dataMaturity" :> Str("abc")
                       @@ "peopleSkills" :> Num(7 * Den + Half)
                       @@ "governanceRisk" :> Num(Den + Half)
                       @@ "techInfra" :> Str("4")
                       @@ "partnerships" :> Null
                       @@ "ethicsTrust" :> Int2Num(-2)
                       @@ "notes" :> Int2Num(5)
                       @@ "extra" :> Int2Num(1) )
      @@ "useCases" :> Arr(<< Null,
                              Int2Num(5),
                              Obj( "id" :> Int2Num(7) @@ "name" :> Int2Num(7)
                                @@ "description" :> Null @@ "visible" :> Str("yes")
                                @@ "scores" :> Obj( "dataReady" :> Num(0)
                                                 @@ "techMature" :> Str("11")
                                                 @@ "reusable" :> Num(2 * Den + Half)
                                                 @@ "noRisk" :> Str("abc") ) ),
                              Obj("name" :> Str("") @@ "scores" :> Str("abc")) >>)
      @@ "placements" :> Obj( "x" :> XY(Num(0), Num(0))
                           @@ "1.5" :> XY(Num(0), Num(0))
                           @@ "3" :> Null
                           @@ "4" :> XY(Str("abc"), Num(0))
                           @@ "5" :> XY(Str("1"), Bool(TRUE))
                           @@ "6" :> Obj("x" :> Num(Half))
                           @@ "02" :> XY(Num(2 * Den), Num(Half))
                           @@ "-1" :> XY(Num(Half), Num(Half))
                           @@ "11" :> XY(Num(-Den), Num(Den + 1)) ) )

\* substructures of the wrong kind: scores a number, useCases a string,
\* placements an array of pairs
DocWrongKinds ==
    Obj( "scores" :> Int2Num(3)
      @@ "useCases" :> Str("nope")
      @@ "placements" :> Arr(<<XY(Num(Half), Num(Den)), Int2Num(1)>>) )

\* the parsed JSON values the model hands to importProject
Payloads == {Null, DocTenUseCases, DocMalformed}

\* handleImportJSON's reader.onload with text that parses: onImportAll(parsed)
importProject ==
    /\ ~demoPending /\ step = "prioritization" /\ ~boardStale
    /\ \E payload \in Payloads :
          IF ImportThrows(payload)
          THEN /\ notice' = "Import failed. Please check the JSON structure."
               /\ UNCHANGED <<scores, useCases, placements, boardStale>>
          ELSE /\ scores' = ImportScores(payload)
               /\ useCases' = ImportUseCases(payload)
               /\ placements' = ImportPlacements(payload)
               /\ notice' = "Project imported successfully."
               /\ boardStale' = TRUE
    /\ UNCHANGED <<step, demoPending, selected, dragging, edits, call>>

\* handleImportJSON's reader.onload with text JSON.parse rejects
importUnparseable ==
    /\ ~demoPending /\ step = "prioritization" /\ ~boardStale
    /\ notice' = "Could not parse project JSON."
    /\ call' = [fn |-> "handleImportJSON", arg |-> Str("SyntaxError"), ret |-> Undef]
    /\ UNCHANGED <<step, demoPending, scores, useCases, placements, selected,
                   dragging, boardStale, edits>>

\* handleImportJSON with a file whose read fails: the reader fires its error
\* event, for which no handler is set, and onload never runs
importUnreadable ==
    /\ ~demoPending /\ step = "prioritization" /\ ~boardStale
    /\ call' = [fn |-> "handleImportJSON", arg |-> Str("NotReadableError"), ret |-> Undef]
    /\ UNCHANGED <<step, demoPending, scores, useCases, placements, selected,
                   dragging, boardStale, edits, notice>>

---------------------------------------------------------------------------
(* Step 1: DepartmentReadiness handlers *)

\* the inputs the model feeds to update: NaN, 0, 1, 2.5, 4, 5, 6
ReadinessInputs ==
    {NaN, Num(0), Int2Num(1), Num(2 * Den + Half), Int2Num(4), Int2Num(5), Int2Num(6)}

\* the dimensions the model edits: the first, a middle one and the last
EditDimensions == {READINESS[1], READINESS[6], READINESS[Len(READINESS)]}

\* the setScores updater of update
ReadinessUpdater(s, k, v) == (k :> clamp15(v)) @@ s

update ==
    /\ ~demoPending /\ step = "readiness"
    /\ edits < MaxEdits
    /\ \E k \in EditDimensions, v \in ReadinessInputs :
          scores' = ReadinessUpdater(scores, k, v)
    /\ edits' = edits + 1
    /\ UNCHANGED <<step, demoPending, useCases, placements, selected, dragging,
                   boardStale, notice, call>>

\* the own enumerable properties {...v} copies (v not a string)
Spread(v) == [k \in Keys(v) |-> Get(v, k)]

\* importJSON's reader.onload: defaults overlaid with the file, every
\* readiness key coerced
ReadinessFromFile(parsed) ==
    LET next == Spread(parsed) @@ defaultReadiness
    IN  [k \in ReadinessKeys |-> clamp15(ToNumber(next[k]))] @@ next

\* the parsed readiness files the model imports
ReadinessFiles ==
    {Null, Get(DocTenUseCases, "scores"), Get(DocMalformed, "scores"),
     Arr(<<Int2Num(9)>>)}

importJSON ==
    /\ ~demoPending /\ step = "readiness"
    /\ \E parsed \in ReadinessFiles : scores' = ReadinessFromFile(parsed)
    /\ UNCHANGED <<step, demoPending, useCases, placements, selected, dragging,
                   boardStale, edits, notice, call>>

---------------------------------------------------------------------------
(* Step 3: ImpactFeasibility *)

\* the board is a square of BoardPx by BoardPx pixels
BoardPx == Den

\* pointer offsets from the board's left edge, in pixels
PointerXs == {-1, (Den \div 3) - 1, Den \div 3, (2 * Den) \div 3, Den + 1}

\* pointer offsets from the board's top edge, in pixels
PointerYs == {-1, Half, Half + 1, Den + 1}

\* a / b for integers a and b > 0, as a number
Quot(a, b) == Num((a * Den) \div b)

\* 1 - n
OneMinus(n) == IF n.nan THEN NaN ELSE Num(Den - n.k)

\* a >= b and a < b on numbers: false when either is NaN
GE(a, b) == ~a.nan /\ ~b.nan /\ a.k >= b.k
LT(a, b) == ~a.nan /\ ~b.nan /\ a.k < b.k

\* the tokens the model presses: the first and the last use case
PressTokens(ucs) == {ucs[1].id, ucs[Len(ucs)].id}

\* beginDrag's updater: {...p, __activeId: id}
BeginDragUpdater(p, id) == ("__activeId" :> Int2Num(id)) @@ p

\* token onMouseDown / onTouchStart: beginDrag(u.id); start()
pressToken ==
    /\ ~demoPending /\ step = "prioritization" /\ ~boardStale
    /\ \E id \in PressTokens(useCases) : placements' = BeginDragUpdater(placements, id)
    /\ dragging' = TRUE
    /\ boardStale' = TRUE
    /\ call' = NoCall
    /\ UNCHANGED <<step, demoPending, scores, useCases, selected, edits, notice>>

\* onPos's updater also writing the entry of id 0
OnPosUpdater_AlsoFirst(prev, x, y) ==
    IF "__activeId" \notin DOMAIN prev
    THEN prev
    ELSE ("0" :> [x |-> x, y |-> y])
         @@ (NumKey(prev["__activeId"]) :> [x |-> x, y |-> y]) @@ prev

\* onPos's updater
OnPosUpdater(prev, x, y) ==
    IF "__activeId" \notin DOMAIN prev
    THEN prev
    ELSE (NumKey(prev["__activeId"]) :> [x |-> x, y |-> y]) @@ prev

\* window mousemove / touchmove while dragging
onMove ==
    /\ ~demoPending /\ step = "prioritization"
    /\ dragging
    /\ edits < MaxEdits
    /\ \E px \in PointerXs, py \in PointerYs :
          placements' = OnPosUpdater(placements,
                                     clamp01(Quot(px, BoardPx)),
                                     clamp01(OneMinus(Quot(py, BoardPx))))
    /\ edits' = edits + 1
    /\ boardStale' = TRUE
    /\ call' = NoCall
    /\ UNCHANGED <<step, demoPending, scores, useCases, selected, dragging, notice>>

\* window mouseup / touchend
stop ==
    /\ ~demoPending /\ step = "prioritization"
    /\ dragging
    /\ dragging' = FALSE
    /\ UNCHANGED <<step, demoPending, scores, useCases, placements, selected,
                   boardStale, edits, notice, call>>

\* 0.5, 1/3 and 2/3
CenterCoord == Num(Half)
OneThird == Num(Den \div 3)
TwoThirds == Num((2 * Den) \div 3)

\* placements[id] is undefined
Missing(pl, id) == IdKey(id) \notin DOMAIN pl

\* getPos defaulting to the origin
getPos_Origin(pl, id) ==
    IF Missing(pl, id) THEN [x |-> Num(0), y |-> Num(0)]
    ELSE pl[IdKey(id)]

\* getPos: default any missing placement to center
getPos(pl, id) ==
    IF Missing(pl, id) THEN [x |-> CenterCoord, y |-> CenterCoord]
    ELSE pl[IdKey(id)]

\* placements[u.id]?.y ?? 0.5
ImpactOf(pl, id) ==
    IF Missing(pl, id) THEN CenterCoord ELSE pl[IdKey(id)].y

\* the sequence s reversed
Reverse(s) == [i \in DOMAIN s |-> s[Len(s) + 1 - i]]

\* horizonBuckets with H2's upper test p.x <= 2 / 3
horizonBuckets_Overlap(ucs, pl) ==
    LET hi == SelectSeq(ucs, LAMBDA u : GE(ImpactOf(pl, u.id), CenterCoord))
    IN  [H1 |-> SelectSeq(hi, LAMBDA u : GE(getPos(pl, u.id).x, TwoThirds)),
         H2 |-> SelectSeq(hi, LAMBDA u : /\ GE(getPos(pl, u.id).x, OneThird)
                                          /\ GE(TwoThirds, getPos(pl, u.id).x)),
         H3 |-> SelectSeq(hi, LAMBDA u : LT(getPos(pl, u.id).x, OneThird))]

\* horizonBuckets with H1's test p.x > 2 / 3 and H2's p.x <= 2 / 3
horizonBuckets_Strict(ucs, pl) ==
    LET hi == SelectSeq(ucs, LAMBDA u : GE(ImpactOf(pl, u.id), CenterCoord))
    IN  [H1 |-> SelectSeq(hi, LAMBDA u : LT(TwoThirds, getPos(pl, u.id).x)),
         H2 |-> SelectSeq(hi, LAMBDA u : /\ GE(getPos(pl, u.id).x, OneThird)
                                          /\ GE(TwoThirds, getPos(pl, u.id).x)),
         H3 |-> SelectSeq(hi, LAMBDA u : LT(getPos(pl, u.id).x, OneThird))]

\* horizonBuckets building each horizon back to front
horizonBuckets_Reversed(ucs, pl) ==
    LET hi == Reverse(SelectSeq(ucs, LAMBDA u : GE(ImpactOf(pl, u.id), CenterCoord)))
    IN  [H1 |-> SelectSeq(hi, LAMBDA u : GE(getPos(pl, u.id).x, TwoThirds)),
         H2 |-> SelectSeq(hi, LAMBDA u : /\ GE(getPos(pl, u.id).x, OneThird)
                                          /\ LT(getPos(pl, u.id).x, TwoThirds)),
         H3 |-> SelectSeq(hi, LAMBDA u : LT(getPos(pl, u.id).x, OneThird))]

\* horizonBuckets: the high-impact use cases split by feasibility
horizonBuckets(ucs, pl) ==
    LET hi == SelectSeq(ucs, LAMBDA u : GE(ImpactOf(pl, u.id), CenterCoord))
    IN  [H1 |-> SelectSeq(hi, LAMBDA u : GE(getPos(pl, u.id).x, TwoThirds)),
         H2 |-> SelectSeq(hi, LAMBDA u : /\ GE(getPos(pl, u.id).x, OneThird)
                                          /\ LT(getPos(pl, u.id).x, TwoThirds)),
         H3 |-> SelectSeq(hi, LAMBDA u : LT(getPos(pl, u.id).x, OneThird))]

\* what a render of ImpactFeasibility does to placements: getPos and
\* horizonBuckets only read it
PlacementsAfterRender(ucs, pl) == pl

\* ImpactFeasibility re-renders after a state update
renderBoard ==
    /\ ~demoPending /\ step = "prioritization"
    /\ boardStale
    /\ boardStale' = FALSE
    /\ placements' = PlacementsAfterRender(useCases, placements)
    /\ UNCHANGED <<step, demoPending, scores, useCases, selected, dragging,
                   edits, notice, call>>

---------------------------------------------------------------------------
(* Specification of the scoring step together with project import *)

NextScoring ==
    \/ DemoEffect
    \/ Continue
    \/ Back
    \/ addUseCase
    \/ removeUseCase
    \/ updateScore
    \/ updateMeta
    \/ toggleVisible
    \/ renderBoard
    \/ importProject

SpecScoring == Init /\ [][NextScoring]_vars

---------------------------------------------------------------------------
(* Specification of the readiness step together with project import *)

NextReadiness ==
    \/ DemoEffect
    \/ Continue
    \/ Back
    \/ update
    \/ importJSON
    \/ renderBoard
    \/ importProject

SpecReadiness == Init /\ [][NextReadiness]_vars

---------------------------------------------------------------------------
(* Specification of the prioritization step *)

NextPrioritization ==
    \/ DemoEffect
    \/ Continue
    \/ Back
    \/ pressToken
    \/ onMove
    \/ stop
    \/ renderBoard
    \/ importProject

SpecPrioritization == Init /\ [][NextPrioritization]_vars

---------------------------------------------------------------------------
(* Specification of the score sanitizers as functions: one application of  *)
(* one sanitizer to one input                                              *)

\* numbers from -2 to 12 in steps of 1 / Den, NaN, and values of other types
SanitizerInputs ==
    {Num(k) : k \in (-2 * Den)..(12 * Den)}
    \cup {NaN, Undef, Null, Str(""), Str("abc"), Str("3"), Str("11"), Str("1.5"),
          Bool(TRUE), Bool(FALSE), Arr(<<>>), Obj(EmptyMap)}

InitSanitize ==
    /\ InitSession
    /\ \E v \in SanitizerInputs : call = [fn |-> "", arg |-> v, ret |-> Undef]

Returned(fn, ret) ==
    /\ call.fn = ""
    /\ call' = [fn |-> fn, arg |-> call.arg, ret |-> ret]
    /\ UNCHANGED <<step, demoPending, scores, useCases, placements, selected,
                   dragging, boardStale, edits, notice>>

\* clamp15(n: number)
callClamp15 == call.arg.t = "number" /\ Returned("clamp15", clamp15(call.arg))

\* clamp01to10(n: number)
callClamp01to10 == call.arg.t = "number" /\ Returned("clamp01to10", clamp01to10(call.arg))

\* clamp1to5(n: any)
callClamp1to5 == Returned("clamp1to5", clamp1to5(call.arg))

\* clamp1to10(n: any)
callClamp1to10 == Returned("clamp1to10", clamp1to10(call.arg))

NextSanitize ==
    \/ callClamp15
    \/ callClamp01to10
    \/ callClamp1to5
    \/ callClamp1to10

SpecSanitize == InitSanitize /\ [][NextSanitize]_vars

---------------------------------------------------------------------------
(* Properties *)

\* v is a number with an integer value in lo..hi
IsIntegerIn(v, lo, hi) ==
    /\ v.t = "number" /\ ~v.nan
    /\ v.k % Den = 0
    /\ lo * Den <= v.k /\ v.k <= hi * Den

\* C1: the number of use cases is between 2 and 10 inclusive in every state
\* reachable by addUseCase, removeUseCase, per-entry edits and project import.
UseCaseCountInRange ==
    MinUseCases <= Len(useCases) /\ Len(useCases) <= MaxUseCases

\* removed down to the minimum, after an edit and a project import
UseCaseCountWitness ==
    /\ Len(useCases) = MinUseCases
    /\ edits > 0
    /\ notice = "Project imported successfully."

\* C2: the use case at array position i (0-based) has id i.
IdsMatchPositions ==
    \A i \in DOMAIN useCases : useCases[i].id = i - 1

\* a list grown past the imported length, after a project import
IdsMatchPositionsWitness ==
    /\ Len(useCases) > ImportUseCaseCount
    /\ notice = "Project imported successfully."
    /\ IdsMatchPositions

\* C3: every criterion score of every use case is an integer in [1,10].
CriterionScoresInRange ==
    \A i \in DOMAIN useCases :
        \A k \in DOMAIN useCases[i].scores :
            IsIntegerIn(useCases[i].scores[k], 1, 10)

\* C4: every score sanitizer returns the range minimum, 1, when its input is
\* not-a-number, in the edit path and in the import path.
NaNGivesRangeMinimum ==
    (call.fn \in {"clamp15", "clamp01to10", "clamp1to5", "clamp1to10"}
        /\ MathRound(ToNumber(call.arg)).nan)
    => call.ret = Int2Num(1)

\* C5: all 11 readiness keys are present and each holds an integer in [1,5].
ReadinessScoresInRange ==
    \A k \in ReadinessKeys :
        k \in DOMAIN scores /\ IsIntegerIn(scores[k], 1, 5)

\* a readiness file with an unknown key was imported after a project import,
\* and a dimension was then edited
ReadinessScoresWitness ==
    /\ "extra" \in DOMAIN scores
    /\ notice = "Project imported successfully."
    /\ edits > 0
    /\ ReadinessScoresInRange

\* the keys of the placements mapping that hold a use case's coordinates
IsPlacementKey(key) == key # "__activeId"

\* C6: every stored placement has both coordinates x and y within [0,1].
PlacementsInUnitSquare ==
    \A key \in {k \in DOMAIN placements : IsPlacementKey(k)} :
        /\ ~placements[key].x.nan /\ ~placements[key].y.nan
        /\ 0 <= placements[key].x.k /\ placements[key].x.k <= Den
        /\ 0 <= placements[key].y.k /\ placements[key].y.k <= Den

\* an imported out-of-range placement (id 11) next to one dragged to beyond
\* the left edge of the board
PlacementsInUnitSquareWitness ==
    /\ "11" \in DOMAIN placements
    /\ "0" \in DOMAIN placements
    /\ placements["0"].x = Num(0)
    /\ edits > 0

\* the use case u has an impact coordinate >= 0.5 (0.5 when it has no entry)
HighImpact(u) ==
    IF IdKey(u.id) \in DOMAIN placements
    THEN 2 * placements[IdKey(u.id)].y.k >= Den
    ELSE TRUE

\* the feasibility coordinate of u, times Den (0.5 when it has no entry)
Feasibility(u) ==
    IF IdKey(u.id) \in DOMAIN placements
    THEN placements[IdKey(u.id)].x.k
    ELSE Half

Occurrences(h, u) == Cardinality({j \in DOMAIN h : h[j] = u})

In(h, u) == \E j \in DOMAIN h : h[j] = u

Buckets == horizonBuckets(useCases, placements)

\* C7: a use case is in exactly one horizon when its impact is >= 0.5 and in
\* none when it is < 0.5; the horizons hold nothing but use cases of the list.
HorizonsPartitionHighImpact ==
    /\ \A i \in DOMAIN useCases :
          Occurrences(Buckets.H1, useCases[i]) + Occurrences(Buckets.H2, useCases[i])
             + Occurrences(Buckets.H3, useCases[i])
          = IF HighImpact(useCases[i]) THEN 1 ELSE 0
    /\ \A h \in {Buckets.H1, Buckets.H2, Buckets.H3} :
          \A j \in DOMAIN h : In(useCases, h[j])

\* after a drag: every horizon is occupied and one use case is left out
HorizonsPartitionWitness ==
    /\ Buckets.H1 # <<>> /\ Buckets.H2 # <<>> /\ Buckets.H3 # <<>>
    /\ \E i \in DOMAIN useCases : ~HighImpact(useCases[i])
    /\ edits > 0

\* C8: of the high-impact use cases, Horizon 1 holds those with feasibility
\* >= 2/3, Horizon 2 those with 1/3 <= feasibility < 2/3, and Horizon 3 those
\* with feasibility < 1/3.
HorizonThresholds ==
    \A i \in DOMAIN useCases :
        LET u == useCases[i]
            f == Feasibility(u)
        IN  /\ In(Buckets.H1, u) <=> (HighImpact(u) /\ 3 * f >= 2 * Den)
            /\ In(Buckets.H2, u) <=> (HighImpact(u) /\ 3 * f >= Den /\ 3 * f < 2 * Den)
            /\ In(Buckets.H3, u) <=> (HighImpact(u) /\ 3 * f < Den)

\* one use case sits exactly on 2/3, another exactly on 1/3
HorizonThresholdsWitness ==
    /\ \E i \in DOMAIN useCases :
          /\ IdKey(useCases[i].id) \in DOMAIN placements
          /\ 3 * Feasibility(useCases[i]) = 2 * Den
          /\ In(Buckets.H1, useCases[i])
    /\ \E i \in DOMAIN useCases :
          /\ IdKey(useCases[i].id) \in DOMAIN placements
          /\ 3 * Feasibility(useCases[i]) = Den
          /\ In(Buckets.H2, useCases[i])

\* the position of u in the use-case list
Position(u) == CHOOSE i \in DOMAIN useCases : useCases[i] = u

\* C9: within each horizon the use cases appear in the same relative order as
\* in the use-case list.
HorizonsKeepInputOrder ==
    \A h \in {Buckets.H1, Buckets.H2, Buckets.H3} :
        \A a, c \in DOMAIN h :
            a < c => (In(useCases, h[a]) /\ In(useCases, h[c])
                      /\ Position(h[a]) < Position(h[c]))

\* after a drag: a horizon holds two use cases that are not neighbours in the list
HorizonsKeepInputOrderWitness ==
    /\ \E h \in {Buckets.H1, Buckets.H2, Buckets.H3} :
          \E a \in DOMAIN h :
              a + 1 \in DOMAIN h /\ Position(h[a + 1]) > Position(h[a]) + 1
    /\ edits > 0

\* a use case without a placement entry is shown at, and bucketed as, (0.5, 0.5)
MissingPlacementIsCenter ==
    \A i \in DOMAIN useCases :
        IdKey(useCases[i].id) \notin DOMAIN placements
        => /\ getPos(placements, useCases[i].id) = [x |-> Num(Half), y |-> Num(Half)]
           /\ In(Buckets.H2, useCases[i])
           /\ ~In(Buckets.H1, useCases[i])
           /\ ~In(Buckets.H3, useCases[i])

\* a render of the board leaves the placements mapping as it was
RenderKeepsPlacements ==
    (boardStale /\ ~boardStale') => placements' = placements

\* C10: a use case with no placement entry is treated as located at (0.5, 0.5)
\* by the bucketizer and the board, and rendering (resolving, bucketizing)
\* never changes the placements mapping.
MissingPlacementDefaultsToCenter ==
    [](MissingPlacementIsCenter) /\ [][RenderKeepsPlacements]_vars

\* the board has rendered one dragged token next to tokens without an entry
MissingPlacementWitness ==
    /\ step = "prioritization" /\ ~boardStale
    /\ edits > 0
    /\ \E i \in DOMAIN useCases : IdKey(useCases[i].id) \notin DOMAIN placements
    /\ \E i \in DOMAIN useCases : IdKey(useCases[i].id) \in DOMAIN placements

---------------------------------------------------------------------------
(* Ranking (AISpiderCharts.averageScore / rank) *)

RECURSIVE SumK(_, _)
\* vals.reduce((a, b) => a + b, 0) over the values of sc at keys, times Den
SumK(sc, keys) ==
    IF keys = {} THEN 0
    ELSE LET key == CHOOSE x \in keys : TRUE
         IN  sc[key].k + SumK(sc, keys \ {key})

\* averageScore: Math.round(sum of Object.values(u.scores) / their number)
averageScore(u) ==
    LET n == Cardinality(DOMAIN u.scores)
    IN  Int2Num((2 * SumK(u.scores, DOMAIN u.scores) + n * Den) \div (2 * n * Den))

\* sort's result after one more element x: behind every element whose avg is
\* not smaller (comparator b.avg - a.avg, stable)
InsertByAvg(sorted, x, avgs) ==
    LET p == Cardinality({j \in DOMAIN sorted : avgs[sorted[j]] >= avgs[x]})
    IN  SubSeq(sorted, 1, p) \o <<x>> \o SubSeq(sorted, p + 1, Len(sorted))

\* a sort that puts a later element before its equals
InsertByAvg_Unstable(sorted, x, avgs) ==
    LET p == Cardinality({j \in DOMAIN sorted : avgs[sorted[j]] > avgs[x]})
    IN  SubSeq(sorted, 1, p) \o <<x>> \o SubSeq(sorted, p + 1, Len(sorted))

\* RankOrder with the unstable sort
RankOrder_Unstable(ucs) ==
    LET avgs == [i \in DOMAIN ucs |-> averageScore(ucs[i]).k]
        F[n \in 0..Len(ucs)] ==
            IF n = 0 THEN <<>> ELSE InsertByAvg_Unstable(F[n - 1], n, avgs)
    IN  F[Len(ucs)]

\* the positions of ucs in the order .sort((a, b) => b.avg - a.avg) leaves them
RankOrder(ucs) ==
    LET avgs == [i \in DOMAIN ucs |-> averageScore(ucs[i]).k]
        F[n \in 0..Len(ucs)] ==
            IF n = 0 THEN <<>> ELSE InsertByAvg(F[n - 1], n, avgs)
    IN  F[Len(ucs)]

\* u.name || `Use Case ${u.id + 1}`
RankName(u) == IF u.name # "" THEN u.name ELSE UseCaseLabel(u.id)

\* rank: the final .map over the sorted entries (idx is 0-based in the code)
rank(ucs) ==
    LET order == RankOrder(ucs)
    IN  [pos \in DOMAIN order |->
            [rank |-> (pos - 1) + 1,
             name |-> RankName(ucs[order[pos]]),
             avg |-> averageScore(ucs[order[pos]])]]

---------------------------------------------------------------------------
(* Properties of the ranking *)

\* the sum of the 8 criterion scores of u, times Den
CriterionSum(u) == SumK(u.scores, CriterionKeys)

\* C11: for any two entries of rank's output, the earlier one has an
\* arithmetic mean of its criterion values greater than or equal to that of
\* the later one.
RankDescendingByMean ==
    \A i, j \in DOMAIN RankOrder(useCases) :
        i < j => CriterionSum(useCases[RankOrder(useCases)[i]])
                   >= CriterionSum(useCases[RankOrder(useCases)[j]])

\* the longest use-case list rank is applied to
MaxRankLen == 4

\* score profiles of the ranked use cases: all criteria 9, all 7, one 8 among
\* 7s (mean 7.125), all 5
RankProfiles ==
    { [k \in CriterionKeys |-> Int2Num(9)],
      [k \in CriterionKeys |-> Int2Num(7)],
      (ScoreKeys[1] :> Int2Num(8)) @@ [k \in CriterionKeys |-> Int2Num(7)],
      [k \in CriterionKeys |-> Int2Num(5)] }

\* the use-case lists rank is applied to: every list of 2..MaxRankLen
\* profiles, the entries at even positions unnamed and the third named " "
RankInputs ==
    UNION { { [i \in 1..n |-> [id |-> i - 1,
                               name |-> IF i % 2 = 0 THEN ""
                                        ELSE IF i = 3 THEN " "
                                        ELSE "U" \o ToString(i),
                               description |-> "", visible |-> TRUE,
                               scores |-> f[i]]] :
              f \in [1..n -> RankProfiles] } :
            n \in MinUseCases..MaxRankLen }

InitRank ==
    /\ InitSession
    /\ \E ucs \in RankInputs : call = [fn |-> "", arg |-> ucs, ret |-> Undef]

\* rank(useCases)
callRank == Returned("rank", rank(call.arg))

NextRank == callRank

SpecRank == InitRank /\ [][NextRank]_vars

\* C12: rank returns one entry per input use case, with rank numbers 1..N in
\* output order, and entries with equal average keep their input order.
RankIsDenseAndStable ==
    call.fn = "rank" =>
        LET order == RankOrder(call.arg)
            out == call.ret
        IN  /\ Len(out) = Len(call.arg)
            /\ {order[i] : i \in DOMAIN order} = DOMAIN call.arg
            /\ \A i \in DOMAIN out :
                  /\ out[i].rank = i
                  /\ out[i].name = RankName(call.arg[order[i]])
                  /\ out[i].avg = averageScore(call.arg[order[i]])
            /\ \A i, j \in DOMAIN out :
                  (i < j /\ CriterionSum(call.arg[order[i]]) = CriterionSum(call.arg[order[j]]))
                      => order[i] < order[j]
            /\ \A i, j \in DOMAIN out :
                  (i < j /\ out[i].avg = out[j].avg) => order[i] < order[j]

\* averages 7, 9, 7, 5 were ranked: the second entry leads, the tied first
\* and third follow in input order
RankIsDenseAndStableWitness ==
    /\ call.fn = "rank"
    /\ Len(call.arg) = 4
    /\ RankOrder(call.arg) = <<2, 1, 3, 4>>
    /\ call.ret[2].avg = call.ret[3].avg
    /\ call.ret[2].name # call.ret[3].name

\* C13: the average of a use case is the arithmetic mean of its 8 criterion
\* scores (so it is k when all 8 equal k), in every reachable state.
AverageIsCriterionMean ==
    \A i \in DOMAIN useCases :
        Cardinality(CriterionKeys) * averageScore(useCases[i]).k
            = CriterionSum(useCases[i])

---------------------------------------------------------------------------
(* Readiness summary (band / ReadinessSummary) *)

\* the number p / q (a quotient the grid of Num does not hold)
Ratio(p, q) == [t |-> "number", nan |-> FALSE, p |-> p, q |-> q]

\* band with n <= 2.5 and n <= 3.75
band_Inclusive(n) ==
    IF 2 * n.p <= 5 * n.q THEN [label |-> "Foundational"]
    ELSE IF 4 * n.p <= 15 * n.q THEN [label |-> "Emerging"]
    ELSE [label |-> "Ready"]

\* band: n < 2.5, n < 3.75 (the tone, a CSS class list, is left out)
band(n) ==
    IF 2 * n.p < 5 * n.q THEN [label |-> "Foundational"]
    ELSE IF 4 * n.p < 15 * n.q THEN [label |-> "Emerging"]
    ELSE [label |-> "Ready"]

\* ReadinessSummary's avg: values.reduce((a, b) => a + b, 0) / values.length
ReadinessAverage(sc) == Ratio(SumK(sc, ReadinessKeys), Len(READINESS) * Den)

\* ReadinessSummary's label
ReadinessSummary(sc) == band(ReadinessAverage(sc)).label

\* hundredths, refined with the grid
BandDen == 100 * Res

\* the averages band is applied to: 0 to 6 in steps of 1 / BandDen
BandInputs == {Ratio(k, BandDen) : k \in 0..(6 * BandDen)}

\* a readiness assessment with integer scores in 1..5 that sum to total:
\* the first dimensions are raised to 5 before the next one is raised
ScoresSummingTo(total) ==
    [k \in ReadinessKeys |->
        LET i == CHOOSE j \in DOMAIN READINESS : READINESS[j] = k
        IN  Int2Num(1 + Max(0, Min(4, (total - Len(READINESS)) - 4 * (i - 1))))]

\* one assessment for every possible sum of 11 scores in 1..5
SummaryInputs ==
    {Obj(ScoresSummingTo(total)) : total \in Len(READINESS)..(5 * Len(READINESS))}

InitBand ==
    /\ InitSession
    /\ \E v \in BandInputs \cup SummaryInputs :
          call = [fn |-> "", arg |-> v, ret |-> Undef]

\* band(n)
callBand == call.arg.t = "number" /\ Returned("band", Str(band(call.arg).label))

\* <ReadinessSummary scores={scores} />
callReadinessSummary ==
    call.arg.t = "object"
    /\ Returned("ReadinessSummary", Str(ReadinessSummary(call.arg.f)))

NextBand ==
    \/ callBand
    \/ callReadinessSummary

SpecBand == InitBand /\ [][NextBand]_vars

\* the value of n is p / q
IsValue(n, p, q) == n.p * q = p * n.q

\* the label the thresholds 2.5 and 3.75 give to p / q
BandOf(p, q) ==
    IF 100 * p < 250 * q THEN "Foundational"
    ELSE IF 100 * p < 375 * q THEN "Emerging"
    ELSE "Ready"

---------------------------------------------------------------------------
(* Project documents: import of any document, export *)

\* a well-formed project document with n use cases: readiness scores in
\* 1..5, criterion scores in 1..10, placements in [0,1] for existing ids
DocWellFormed(n) ==
    Obj( "version" :> Int2Num(1)
      @@ "exportedAt" :> Str("t")
      @@ "scores" :> Obj([k \in ReadinessKeys |->
                            Int2Num(1 + ((CHOOSE j \in DOMAIN READINESS : READINESS[j] = k) % 5))]
                         @@ ("notes" :> Str("n")))
      @@ "useCases" :> Arr([i \in 1..n |->
                            UseCaseDoc(i - 1, IF i = 2 THEN "" ELSE "U", i # 1, i)])
      @@ "placements" :> Obj( "0" :> XY(Num(Den), Num(0))
                           @@ IdKey(n - 1) :> XY(Num(Den \div 3), Num(Half)) ) )

\* {scores: {dataMaturity: 4}} : an assessment with one known key
DocPartialScores == Obj("scores" :> Obj("dataMaturity" :> Int2Num(4)))

\* one well-formed document for every use-case count the scoring step allows
WellFormedDocs == {DocWellFormed(n) : n \in MinUseCases..MaxUseCases}

\* a well-formed document of 8 use cases except for its placements, which are
\* {"0": {x: {toString: 1}, y: 0}, "1": {x: 0.5, y: 1}}
DocUncoercible ==
    Obj( "placements" :> Obj( "0" :> XY(Obj("toString" :> Int2Num(1)), Num(0))
                           @@ "1" :> XY(Num(Half), Num(Den)) )
      @@ DocWellFormed(DefaultUseCaseCount).f )

\* every parsed JSON value the model hands to importProject
Documents ==
    {Null, DocEmpty, DocOneUseCase, DocOutOfRangePlacement, DocTenUseCases,
     DocMalformed, DocWrongKinds, DocPartialScores, DocUncoercible,
     Int2Num(5), Str("project"), Arr(<<>>)} \cup WellFormedDocs

\* importProject (via handleImportJSON) on any document, recorded in call:
\* as "importProject" when it ran to its end, as "importProject catch" when
\* its catch block ran
importDocument ==
    /\ ~demoPending /\ step = "prioritization" /\ ~boardStale
    /\ \E payload \in Documents :
          IF ImportThrows(payload)
          THEN /\ notice' = "Import failed. Please check the JSON structure."
               /\ call' = [fn |-> "importProject catch", arg |-> payload, ret |-> Undef]
               /\ UNCHANGED <<scores, useCases, placements, boardStale>>
          ELSE /\ scores' = ImportScores(payload)
               /\ useCases' = ImportUseCases(payload)
               /\ placements' = ImportPlacements(payload)
               /\ call' = [fn |-> "importProject", arg |-> payload, ret |-> Undef]
               /\ notice' = "Project imported successfully."
               /\ boardStale' = TRUE
    /\ UNCHANGED <<step, demoPending, selected, dragging, edits>>

\* JSON.stringify of a number: NaN is written as null
JsonNumber(v) == IF v.t = "number" /\ v.nan THEN Null ELSE v

\* a use case as JSON.stringify writes it
JsonUseCase(u) ==
    Obj( "id" :> Int2Num(u.id) @@ "name" :> Str(u.name)
      @@ "description" :> Str(u.description) @@ "visible" :> Bool(u.visible)
      @@ "scores" :> Obj([k \in DOMAIN u.scores |-> JsonNumber(u.scores[k])]) )

\* placements written with only its coordinate pairs
JsonPlacements_PairsOnly(pl) ==
    Obj([key \in {k \in DOMAIN pl : "x" \in DOMAIN pl[k]} |->
            XY(JsonNumber(pl[key].x), JsonNumber(pl[key].y))])

\* the placements state as JSON.stringify writes it: every own key, a
\* coordinate pair as an object, a number as a number
JsonPlacements(pl) ==
    Obj([key \in DOMAIN pl |->
            IF "x" \in DOMAIN pl[key]
            THEN XY(JsonNumber(pl[key].x), JsonNumber(pl[key].y))
            ELSE JsonNumber(pl[key])])

\* the values new Date().toISOString() takes in the model
Timestamps == {"t", "u"}

\* exportProject's payload as written to the file
ExportDocument(sc, ucs, pl, at) ==
    Obj( "version" :> Int2Num(1)
      @@ "exportedAt" :> Str(at)
      @@ "scores" :> Obj([k \in DOMAIN sc |-> JsonNumber(sc[k])])
      @@ "useCases" :> Arr([i \in DOMAIN ucs |-> JsonUseCase(ucs[i])])
      @@ "placements" :> JsonPlacements(pl) )

\* exportProject (Export button of the board): the document is recorded in call
exportProject ==
    /\ ~demoPending /\ step = "prioritization" /\ ~boardStale
    /\ \E at \in Timestamps :
          call' = [fn |-> "exportProject", arg |-> Undef,
                   ret |-> ExportDocument(scores, useCases, placements, at)]
    /\ UNCHANGED <<step, demoPending, scores, useCases, placements, selected,
                   dragging, boardStale, edits, notice>>

\* import and export of project documents, without drag gestures
NextImport ==
    \/ DemoEffect
    \/ Continue
    \/ Back
    \/ renderBoard
    \/ importDocument
    \/ importUnparseable
    \/ importUnreadable
    \/ exportProject

SpecImport == Init /\ [][NextImport]_vars

\* the prioritization step with its Export button
NextExport ==
    \/ DemoEffect
    \/ Continue
    \/ Back
    \/ pressToken
    \/ onMove
    \/ stop
    \/ renderBoard
    \/ importProject
    \/ exportProject

SpecExport == Init /\ [][NextExport]_vars

---------------------------------------------------------------------------
(* Properties of project import and export *)

\* the incoming use-case array of the document last imported
Incoming ==
    IF Get(call.arg, "useCases").t = "array" THEN Get(call.arg, "useCases").a ELSE <<>>

\* C15: project import yields exactly 8 use cases whatever the incoming
\* useCases is: the first 8 incoming entries are kept in place, and a shorter
\* input is right-padded with default entries.
ImportYieldsEightUseCases ==
    call.fn = "importProject" =>
        /\ Len(useCases) = 8
        /\ \A i \in DOMAIN useCases :
              IF i <= Len(Incoming)
              THEN Get(Incoming[i], "name").t = "string"
                      => useCases[i].name = Get(Incoming[i], "name").s
              ELSE /\ useCases[i].scores = emptyScores
                   /\ useCases[i].description = ""
                   /\ useCases[i].visible

\* a document with 10 use cases was imported and cut to its first 8
ImportYieldsEightUseCasesWitness ==
    /\ call.fn = "importProject"
    /\ Len(Incoming) = 10
    /\ Len(useCases) = 8
    /\ useCases[8].scores = [k \in CriterionKeys |-> Int2Num(8)]

\* C16: each entry project import pads in at position i (0-based) is named
\* "Use Case {i+1}".
PaddedNamesFollowPosition ==
    call.fn = "importProject" =>
        \A i \in DOMAIN useCases :
            i > Len(Incoming) => useCases[i].name = UseCaseLabel(i - 1)

\* the assessment object of the document last imported ({} when it has none)
IncomingScores ==
    IF Get(call.arg, "scores").t = "object" THEN Get(call.arg, "scores").f ELSE EmptyMap

\* C17: on project import each known readiness key present in the input
\* holds its value clamped to [1,5], each known key absent from the input
\* holds the default 3, and no key other than the 11 and notes appears.
ImportedAssessmentKeepsDefaults ==
    call.fn = "importProject" =>
        /\ \A k \in ReadinessKeys :
              IF k \in DOMAIN IncomingScores
              THEN /\ IsIntegerIn(scores[k], 1, 5)
                   /\ IsIntegerIn(IncomingScores[k], 1, 5) => scores[k] = IncomingScores[k]
              ELSE scores[k] = Int2Num(3)
        /\ DOMAIN scores \subseteq (ReadinessKeys \cup {"notes"})

\* the placements mapping of the document last imported ({} when it has none)
IncomingPlacements ==
    IF Get(call.arg, "placements").t \in {"object", "array"}
    THEN Spread(Get(call.arg, "placements"))
    ELSE EmptyMap

\* the key k parses as an integer id and its value has coordinates x and y
KeptOnImport(k) ==
    /\ IsInteger(StrToNumber(k))
    /\ ~ToNumber(Get(IncomingPlacements[k], "x")).nan
    /\ ~ToNumber(Get(IncomingPlacements[k], "y")).nan

\* the number n brought into [0,1]
IntoUnit(n) == IF n.k < 0 THEN Num(0) ELSE IF n.k > Den THEN Num(Den) ELSE n

\* C18: on project import a placement entry is kept exactly when its key
\* parses as an integer id and its value is a coordinate pair; a kept entry
\* has each coordinate clamped to [0,1] ({x: 1.5, y: -0.3} under "2" becomes
\* id 2 = {x: 1, y: 0}); an entry failing either check is absent.
ImportedPlacementsKeptOrDropped ==
    call.fn = "importProject" =>
        /\ DOMAIN placements
              = {NumKey(StrToNumber(k)) : k \in {kk \in DOMAIN IncomingPlacements : KeptOnImport(kk)}}
        /\ \A key \in DOMAIN placements :
              \E k \in DOMAIN IncomingPlacements :
                  /\ KeptOnImport(k) /\ NumKey(StrToNumber(k)) = key
                  /\ placements[key].x = IntoUnit(ToNumber(Get(IncomingPlacements[k], "x")))
                  /\ placements[key].y = IntoUnit(ToNumber(Get(IncomingPlacements[k], "y")))
        /\ call.arg = DocOutOfRangePlacement
              => placements = ("2" :> [x |-> Int2Num(1), y |-> Int2Num(0)])

\* {placements: {"2": {x: 1.5, y: -0.3}}} was imported
ImportedPlacementsWitness ==
    /\ call.fn = "importProject"
    /\ call.arg = DocOutOfRangePlacement
    /\ placements = ("2" :> [x |-> Int2Num(1), y |-> Int2Num(0)])

\* C19: the placements of an exported document hold only use-case-id to
\* coordinate-pair entries; the drag marker __activeId never appears in it.
ExportHasNoDragMarker ==
    call.fn = "exportProject" =>
        \A key \in Keys(Get(call.ret, "placements")) :
            /\ key # "__activeId"
            /\ Get(Get(call.ret, "placements"), key).t = "object"
            /\ Keys(Get(Get(call.ret, "placements"), key)) = {"x", "y"}

\* the document export writes in the current state
Exported == ExportDocument(scores, useCases, placements, "t")

\* C20: importing a well-formed project document and exporting immediately
\* yields a document equal to the original in scores, useCases and placements.
RoundTripOfWellFormed ==
    (call.fn = "importProject" /\ call.arg \in WellFormedDocs) =>
        /\ Get(Exported, "scores") = Get(call.arg, "scores")
        /\ Get(Exported, "useCases") = Get(call.arg, "useCases")
        /\ Get(Exported, "placements") = Get(call.arg, "placements")

\* the input entry behind position i (1-based) of the imported list:
\* undefined past the end of the incoming array
IncomingAt(i) == IF i <= Len(Incoming) THEN Incoming[i] ELSE Undef

ErrorNotices ==
    {"Could not parse project JSON.", "Import failed. Please check the JSON structure."}

\* C22: when the selected project file cannot be read or cannot be parsed as
\* JSON, scores, use cases and placements stay exactly as they were and an
\* error notice is raised.
FailedImportKeepsStateAndAlerts ==
    [][(importUnparseable \/ importUnreadable) =>
          /\ scores' = scores
          /\ useCases' = useCases
          /\ placements' = placements
          /\ notice' \in ErrorNotices]_vars

\* every readiness key holds an integer of 1..5 and notes is text
ValidAssessment ==
    /\ DOMAIN scores = ReadinessKeys \cup {"notes"}
    /\ \A k \in ReadinessKeys : IsIntegerIn(scores[k], 1, 5)
    /\ scores["notes"].t = "string"

\* 8 use cases with ids 0..7 in order and every criterion an integer of 1..10
EightValidUseCases ==
    /\ Len(useCases) = ImportUseCaseCount
    /\ \A i \in DOMAIN useCases :
          /\ useCases[i].id = i - 1
          /\ useCases[i].visible \in BOOLEAN
          /\ DOMAIN useCases[i].scores = CriterionKeys
          /\ \A k \in CriterionKeys : IsIntegerIn(useCases[i].scores[k], 1, 10)

\* every placement has both coordinates in [0,1]
ValidPlacements ==
    \A key \in DOMAIN placements :
        /\ ~placements[key].x.nan /\ placements[key].x.k \in 0..Den
        /\ ~placements[key].y.nan /\ placements[key].y.k \in 0..Den

\* C23: project import of any parseable JSON value never ends in the failure
\* outcome: it replaces the state with a valid assessment, 8 valid use cases
\* and a valid placements mapping, and a bad field in one substructure does
\* not keep the document's other substructures from being taken over.
ParseableImportNeverFails ==
    call.fn \in {"importProject", "importProject catch"} =>
        /\ notice = "Project imported successfully."
        /\ ValidAssessment
        /\ EightValidUseCases
        /\ ValidPlacements
        /\ \A i \in DOMAIN useCases :
              (i <= Len(Incoming) /\ Get(Incoming[i], "name").t = "string")
                 => useCases[i].name = Get(Incoming[i], "name").s
        /\ \A k \in ReadinessKeys :
              (k \in DOMAIN IncomingScores /\ IsIntegerIn(IncomingScores[k], 1, 5))
                 => scores[k] = IncomingScores[k]

\* the name s is empty or consists only of whitespace (the model's names
\* hold at most one space)
IsBlank(s) == s \in {"", " "}

\* C24: the display name of a ranking entry is "Use Case {id+1}" whenever the
\* use case's name is empty or consists only of whitespace, and the use
\* case's own name otherwise.
RankNameDefaultsWhenBlank ==
    call.fn = "rank" =>
        LET order == RankOrder(call.arg)
        IN  \A i \in DOMAIN call.ret :
                call.ret[i].name
                   = IF IsBlank(call.arg[order[i]].name)
                     THEN UseCaseLabel(call.arg[order[i]].id)
                     ELSE call.arg[order[i]].name

\* C25: each score sanitizer is idempotent over all inputs, not-a-number
\* included: applied to its own output it returns that output unchanged.
SanitizersAreIdempotent ==
    /\ call.fn = "clamp15" => clamp15(call.ret) = call.ret
    /\ call.fn = "clamp01to10" => clamp01to10(call.ret) = call.ret
    /\ call.fn = "clamp1to5" => clamp1to5(call.ret) = call.ret
    /\ call.fn = "clamp1to10" => clamp1to10(call.ret) = call.ret

---------------------------------------------------------------------------
(* Handler calls issued from one render: each call reads the use-case list
   its render captured, and React applies the queued updaters in order *)

\* the most handler calls the model issues from one render
MaxBatch == 2

\* every sequence of 1..MaxBatch calls of addUseCase / removeUseCase
Batches == UNION {[1..n -> {"addUseCase", "removeUseCase"}] : n \in 1..MaxBatch}

\* the use cases after the updaters queued by the calls b, each call's guard
\* evaluated on the captured list ucs
UseCasesAfterBatch(b, ucs) ==
    LET F[n \in 0..Len(b)] ==
            IF n = 0 THEN ucs
            ELSE IF b[n] = "addUseCase"
                 THEN IF AddRefused(ucs) THEN F[n - 1] ELSE AddUpdater(F[n - 1])
                 ELSE IF RemoveRefused(ucs) THEN F[n - 1] ELSE RemoveUpdater(F[n - 1])
    IN  F[Len(b)]

\* the selected index after the setSelected calls queued by the calls b
SelectedAfterBatch(b, ucs, sel) ==
    LET F[n \in 0..Len(b)] ==
            IF n = 0 THEN sel
            ELSE IF b[n] = "addUseCase"
                 THEN IF AddRefused(ucs) THEN F[n - 1] ELSE Len(ucs)
                 ELSE IF RemoveRefused(ucs) THEN F[n - 1] ELSE Min(F[n - 1], Len(ucs) - 2)
    IN  F[Len(b)]

\* addUseCase / removeUseCase called 1..MaxBatch times from the same render,
\* followed by React applying the queued updates
batchedCalls ==
    /\ ~demoPending /\ step = "scoring"
    /\ \E b \in Batches :
          /\ useCases' = UseCasesAfterBatch(b, useCases)
          /\ selected' = SelectedAfterBatch(b, useCases, selected)
    /\ UNCHANGED <<step, demoPending, scores, placements, dragging, boardStale, edits, notice, call>>

NextBatch ==
    \/ DemoEffect
    \/ Continue
    \/ Back
    \/ batchedCalls
    \/ toggleVisible

SpecBatch == Init /\ [][NextBatch]_vars

\* C26: when two addUseCase calls, or two removeUseCase calls, are issued
\* from the same render, the use-case count after both updates are applied
\* is still within [2,10].
BatchedCountStaysInRange ==
    Len(useCases) \in MinUseCases..MaxUseCases

---------------------------------------------------------------------------
(* Specification of the use-case list edited between drags on the board *)

NextPlacementIds ==
    \/ DemoEffect
    \/ Continue
    \/ Back
    \/ addUseCase
    \/ removeUseCase
    \/ pressToken
    \/ onMove
    \/ stop
    \/ renderBoard

SpecPlacementIds == Init /\ [][NextPlacementIds]_vars

\* C27: in every state reachable by addUseCase, removeUseCase, drag gestures
\* and project import, every id key of the placements mapping is the id of a
\* currently existing use case (so a use case freshly appended by addUseCase
\* has no entry and resolves to the center).
PlacementKeysAreUseCaseIds ==
    \A key \in {k \in DOMAIN placements : IsPlacementKey(k)} :
        \E i \in DOMAIN useCases : IdKey(useCases[i].id) = key

---------------------------------------------------------------------------
(* Specification of drag gestures alone *)

NextDrag ==
    \/ DemoEffect
    \/ Continue
    \/ Back
    \/ pressToken
    \/ onMove
    \/ stop
    \/ renderBoard

SpecDrag == Init /\ [][NextDrag]_vars

\* the coordinate entries of the placements mapping pl
Entries(pl) == [k \in {key \in DOMAIN pl : IsPlacementKey(key)} |-> pl[k]]

\* C28: once the session is loaded, pointer moves change the placements only between a press on a token
\* and the next release; such a move sets only the entry of the pressed
\* token's id and leaves every other entry unchanged; a press or a release
\* by itself creates no placement entry.
MovesPlaceOnlyThePressedToken ==
    [][/\ (~demoPending /\ Entries(placements') # Entries(placements)) =>
             /\ dragging /\ dragging'
             /\ "__activeId" \in DOMAIN placements
             /\ \E id \in PressTokens(useCases) : placements["__activeId"] = Int2Num(id)
             /\ DOMAIN Entries(placements')
                   = DOMAIN Entries(placements) \cup {NumKey(placements["__activeId"])}
             /\ \A k \in DOMAIN Entries(placements) :
                   k # NumKey(placements["__activeId"])
                      => placements'[k] = placements[k]
       /\ dragging' # dragging => Entries(placements') = Entries(placements)]_vars

\* the last token has been pressed and moved, next to the entries of the demo
\* session which are as they were
MovesPlaceOnlyThePressedTokenWitness ==
    /\ dragging /\ edits > 0
    /\ placements["__activeId"] = Int2Num(useCases[Len(useCases)].id)
    /\ IdKey(useCases[Len(useCases)].id) \in DOMAIN placements
    /\ "0" \in DOMAIN placements
    /\ placements["0"] = demoPlacements["0"]
    /\ placements[IdKey(useCases[Len(useCases)].id)] # demoPlacements[IdKey(useCases[Len(useCases)].id)]

---------------------------------------------------------------------------
(* Specification of the use-case tabs: selecting, adding, removing *)

NextTabs ==
    \/ DemoEffect
    \/ Continue
    \/ Back
    \/ selectTab
    \/ addUseCase
    \/ removeUseCase

SpecTabs == Init /\ [][NextTabs]_vars

\* the selected tab index refers to an existing use case
SelectedExists == 0 <= selected /\ selected < Len(useCases)

\* a step that appends a use case selects it
AddSelectsTheNew ==
    Len(useCases') = Len(useCases) + 1 =>
        /\ selected' = Len(useCases') - 1
        /\ useCases'[selected' + 1] = DefaultUseCase(Len(useCases))

\* C29: in every state reachable by tab selection, addUseCase and
\* removeUseCase the selected tab index refers to an existing use case, and
\* after addUseCase the newly appended use case is the selected one.
SelectedTabExists ==
    [](SelectedExists) /\ [][AddSelectsTheNew]_vars

\* the last of 3 tabs was selected and a use case removed: the selection has
\* moved to the new last tab
SelectedTabExistsWitness ==
    /\ Len(useCases) = MinUseCases
    /\ selected = MinUseCases - 1

---------------------------------------------------------------------------
(* The detail panel's ranking line (AISpiderCharts) *)

\* ranks.find(r => r.name === name): the position of the first entry so
\* named, 0 when find returns undefined
FindByName(ranks, name) ==
    IF \E i \in DOMAIN ranks : ranks[i].name = name
    THEN CHOOSE i \in DOMAIN ranks :
            /\ ranks[i].name = name
            /\ \A j \in 1..(i - 1) : ranks[j].name # name
    ELSE 0

\* what the detail panel shows for active = useCases[selected]:
\* #{ranks.find(...)?.rank ?? "?"} and (Avg score: {ranks.find(...)?.avg ?? "?"})
DetailRanking(ucs, sel) ==
    LET active == ucs[sel + 1]
        ranks == rank(ucs)
        r == FindByName(ranks, active.name)
    IN  IF r = 0
        THEN [rank |-> Str("?"), avg |-> Str("?")]
        ELSE [rank |-> Int2Num(ranks[r].rank), avg |-> ranks[r].avg]

\* C30: for every use-case list reachable by edits, empty and shared names
\* included, the rank and average the detail panel shows for the selected use
\* case are those of the ranking entry computed from that use case.
DetailShowsOwnRanking ==
    (~demoPending /\ step = "scoring" /\ selected < Len(useCases)) =>
        LET order == RankOrder(useCases)
            pos == CHOOSE q \in DOMAIN order : order[q] = selected + 1
        IN  DetailRanking(useCases, selected)
               = [rank |-> Int2Num(pos), avg |-> averageScore(useCases[selected + 1])]

====
